---------------------------- MODULE Spec2Model ----------------------------
(***************************************************************************)
(* State-machine model of the LangChain starter template:                  *)
(*   ConfigManager  (singleton configuration store),                       *)
(*   ModelManager   (initialized flag, simulated initialization delay),    *)
(*   LangChainCore  (mock operations gated by the ModelManager flag),      *)
(*   LangChainStarter (facade with its own initialized flag),              *)
(*   runExamples / main (top-level run paths).                             *)
(*                                                                         *)
(* JavaScript objects are modelled as functions whose domain is the set of *)
(* properties that are present; a property that is absent reads as         *)
(* undefined.  Object references are indices into the heaps cfgObjs        *)
(* (top-level configuration records) and secs (their sections).            *)
(* Every action records what its step delivered to its caller in out.      *)
(***************************************************************************)
EXTENDS Integers, Sequences, FiniteSets, TLC

VARIABLES
    env,                \* process.env: the OPENAI_API_KEY entry
    instance,           \* ConfigManager.instance: 0 = undefined, else the id
    cfgSlot,            \* ConfigManager.config: reference into cfgObjs
    cfgObjs,            \* heap of top-level configuration objects
    secs,               \* heap of section objects (openai/embeddings/logging)
    app,                \* the LangChainStarter: [exists, cfg]
    starterInitialized, \* LangChainStarter.initialized
    mmInitialized,      \* ModelManager.initialized
    calls,              \* lifecycle calls suspended at an await
    phase,              \* "start" (module loaded), "library", "exited"
    held,               \* the closure the client obtained last from the core
    split,              \* the splitText call that is running its loop
    out                 \* what the last step delivered to its caller

vars == <<env, instance, cfgSlot, cfgObjs, secs, app, starterInitialized,
          mmInitialized, calls, phase, held, split, out>>

cfgVars  == <<instance, cfgSlot, cfgObjs, secs>>
lifeVars == <<starterInitialized, mmInitialized, calls>>
coreVars == <<held, split>>

-----------------------------------------------------------------------------
(* Bounds *)

MaxUpdates == 2      \* updateConfig calls explored
MaxCalls   == 2      \* lifecycle calls that may be suspended at once
MaxDocs    == 5      \* documents in a list passed to the core
MaxTextLen == 8      \* characters in a text passed to splitText
MaxChunks  == 10     \* chunks a splitText loop pushes before memory runs out

-----------------------------------------------------------------------------
(* Errors: an Error object is identified by its message and its throw site *)

NoErr == [msg |-> "", site |-> ""]

ValidationMsg   == "OPENAI_API_KEY environment variable is required"
PreconditionMsg == "ModelManager must be initialized before use"
StarterMsg      == "LangChain starter must be initialized before use"
ConnectionMsg   == "Failed to establish connection with models"

Err(msg, site) == [msg |-> msg, site |-> site]

IsValidation(e)   == e.msg = ValidationMsg
IsPrecondition(e) == e.msg \in {PreconditionMsg, StarterMsg}

(* A logger call: the method used and the message *)
L(level, msg) == [level |-> level, msg |-> msg]

(* The record of a step.  op: the method whose step this is; call: the     *)
(* outermost client call it belongs to; ev: return | throw | suspend |     *)
(* exit; err: the error delivered to the caller; raised: the error thrown  *)
(* at its origin during the step; logs: the logger calls made; lines: the  *)
(* lines a Logger method wrote to the console; docs, k, text: the          *)
(* arguments of a core operation or the values its closure captured;       *)
(* value: the value returned.                                              *)

(* an optional argument: left out by the caller, or given *)
NoArg  == [given |-> FALSE, val |-> 0]
Arg(n) == [given |-> TRUE, val |-> n]

NoOut ==
    [op |-> "", call |-> "", ev |-> "none", err |-> NoErr, raised |-> NoErr,
     logs |-> <<>>, arg |-> 0, ref |-> 0, constructed |-> FALSE,
     delays |-> 0, conn |-> "none", overtaken |-> FALSE, begin |-> FALSE,
     code |-> 0, lines |-> <<>>, docs |-> <<>>, query |-> "", k |-> NoArg,
     text |-> <<>>, value |-> <<>>]

(* the client holds no closure; no splitText call is running *)
NoClosure == [kind |-> "none", documents |-> <<>>, template |-> ""]
NoSplit   == [pc |-> "idle", text |-> <<>>, i |-> 0, chunks |-> <<>>]

-----------------------------------------------------------------------------
(* Configuration store *)

Levels == <<"debug", "info", "warn", "error">>

SectionOrder == <<"openai", "embeddings", "logging">>

EnvUnset   == [set |-> FALSE, val |-> ""]
EnvSet(v)  == [set |-> TRUE, val |-> v]
EnvValues  == {EnvUnset, EnvSet(""), EnvSet("sk-test")}

(* process.env.X || dflt : undefined and "" are both falsy *)
OrDefault(e, dflt) == IF e.set /\ e.val # "" THEN e.val ELSE dflt

DefaultTemperature10 == 7       \* parseFloat("0.7"), in tenths
DefaultMaxTokens     == 1000
DefaultChunkSize     == 1000
DefaultChunkOverlap  == 200

(* loadConfig(): the three sections built from the environment *)
loadConfig(e) ==
    [openai     |-> [apiKey |-> OrDefault(e, ""),
                     model |-> "gpt-3.5-turbo",
                     temperature |-> DefaultTemperature10,
                     maxTokens |-> DefaultMaxTokens],
     embeddings |-> [model |-> "text-embedding-ada-002",
                     chunkSize |-> DefaultChunkSize,
                     chunkOverlap |-> DefaultChunkOverlap],
     logging    |-> [level |-> "info", enableConsole |-> TRUE]]

(* !section.apiKey : true when the property is absent or the empty string *)
ApiKeyMissing(openaiSec) ==
    \/ "apiKey" \notin DOMAIN openaiSec
    \/ openaiSec["apiKey"] = ""

(* validateConfig(): the error it throws for a configuration, or NoErr *)
validateConfig(openaiSec) ==
    IF ApiKeyMissing(openaiSec)
    THEN Err(ValidationMsg, "ConfigManager.validateConfig")
    ELSE NoErr

(* The sections of the top-level object at reference r, dereferenced *)
Deref(objs, ss, r) == [s \in DOMAIN objs[r] |-> ss[objs[r][s]]]

Cur == Deref(cfgObjs, secs, cfgSlot)

(* The partial records passed to updateConfig *)
ReadmePartial   == [openai |-> [temperature |-> 9]]
EmptyKeyPartial == [openai |-> [apiKey |-> "", model |-> "gpt-4",
                                temperature |-> 7, maxTokens |-> 500]]
FullPartial     == [openai |-> [apiKey |-> "sk-new", model |-> "gpt-4",
                                temperature |-> 9, maxTokens |-> 500]]
LoggingPartial  == [logging |-> [level |-> "debug", enableConsole |-> FALSE]]
ChunkPartial    == [embeddings |-> [model |-> "text-embedding-ada-002",
                                    chunkSize |-> 5, chunkOverlap |-> 2]]

Partials == <<ReadmePartial, EmptyKeyPartial, FullPartial, LoggingPartial,
              ChunkPartial>>

(* The sections a partial names, in property order *)
PartialSections(p) == SelectSeq(SectionOrder, LAMBDA s : s \in DOMAIN p)

IndexOf(seq, x) == CHOOSE i \in 1..Len(seq) : seq[i] = x

(* { ...this.config, ...newConfig } : a new top-level object whose         *)
(* sections are the partial's (new objects) where it names them and the    *)
(* old object's section references elsewhere.  base is Len(secs).          *)
SpreadMerge(obj, p, base) ==
    [s \in DOMAIN obj \cup DOMAIN p |->
        IF s \in DOMAIN p THEN base + IndexOf(PartialSections(p), s)
                          ELSE obj[s]]

NewSections(p) == [i \in 1..Len(PartialSections(p)) |-> p[PartialSections(p)[i]]]

(* updateConfig, first statement: this.config = {...this.config, ...p}.   *)
(* Gives the heaps and the slot after the assignment.                      *)
updateConfig_inPlace(objs, ss, slot, p) ==
    [cfgObjs |-> [objs EXCEPT ![slot] = SpreadMerge(objs[slot], p, Len(ss))],
     secs    |-> ss \o NewSections(p),
     cfgSlot |-> slot]

updateConfig(objs, ss, slot, p) ==
    [cfgObjs |-> Append(objs, SpreadMerge(objs[slot], p, Len(ss))),
     secs    |-> ss \o NewSections(p),
     cfgSlot |-> Len(objs) + 1]

(* getInstance(): constructs (loadConfig, validateConfig) when no instance *)
(* is stored; the constructor's throw leaves ConfigManager.instance unset. *)
getInstance_alwaysConstruct(inst, e, objs, ss, slot) ==
    LET cfg == loadConfig(e)
        v   == validateConfig(cfg.openai)
    IN  IF v # NoErr
        THEN [err |-> v, constructed |-> TRUE, instance |-> inst,
              cfgObjs |-> objs, secs |-> ss, cfgSlot |-> slot]
        ELSE [err |-> NoErr, constructed |-> TRUE, instance |-> inst + 1,
              cfgObjs |-> Append(objs,
                            [openai |-> Len(ss) + 1,
                             embeddings |-> Len(ss) + 2,
                             logging |-> Len(ss) + 3]),
              secs |-> ss \o <<cfg.openai, cfg.embeddings, cfg.logging>>,
              cfgSlot |-> Len(objs) + 1]

getInstance(inst, e, objs, ss, slot) ==
    IF inst # 0
    THEN [err |-> NoErr, constructed |-> FALSE, instance |-> inst,
          cfgObjs |-> objs, secs |-> ss, cfgSlot |-> slot]
    ELSE getInstance_alwaysConstruct(inst, e, objs, ss, slot)

Library == phase \in {"start", "library"}

NoCalls == [c \in 1..MaxCalls |->
              [kind |-> "", pc |-> "idle", timer |-> 0, delayed |-> FALSE,
               mmDone |-> FALSE, fDone |-> FALSE]]

SetCfg(r) ==
    /\ instance' = r.instance
    /\ cfgSlot' = r.cfgSlot
    /\ cfgObjs' = r.cfgObjs
    /\ secs' = r.secs

(* ConfigManager.getInstance() called by a client *)
ConfigManager_getInstance ==
    /\ Library
    /\ Len(cfgObjs) <= MaxUpdates
    /\ LET r == getInstance(instance, env, cfgObjs, secs, cfgSlot) IN
        /\ SetCfg(r)
        /\ out' = [NoOut EXCEPT !.op = "ConfigManager.getInstance",
                                !.ev = IF r.err = NoErr THEN "return" ELSE "throw",
                                !.err = r.err, !.raised = r.err,
                                !.ref = r.instance,
                                !.constructed = r.constructed]
    /\ phase' = "library"
    /\ UNCHANGED <<coreVars, env, app, lifeVars>>

(* ConfigManager.getInstance().getConfig() on the stored instance *)
ConfigManager_getConfig ==
    /\ Library
    /\ instance # 0
    /\ out' = [NoOut EXCEPT !.op = "ConfigManager.getConfig",
                            !.ev = "return", !.ref = cfgSlot]
    /\ phase' = "library"
    /\ UNCHANGED <<coreVars, env, cfgVars, app, lifeVars>>

(* ConfigManager.getInstance().updateConfig(Partials[i]) *)
ConfigManager_updateConfig(i) ==
    /\ Library
    /\ instance # 0
    /\ Len(cfgObjs) <= MaxUpdates
    /\ LET u == updateConfig(cfgObjs, secs, cfgSlot, Partials[i])
            v == validateConfig(Deref(u.cfgObjs, u.secs, u.cfgSlot).openai)
        IN  /\ cfgObjs' = u.cfgObjs
            /\ secs' = u.secs
            /\ cfgSlot' = u.cfgSlot
            /\ out' = [NoOut EXCEPT !.op = "ConfigManager.updateConfig",
                                    !.ev = IF v = NoErr THEN "return" ELSE "throw",
                                    !.err = v, !.raised = v, !.arg = i]
    /\ phase' = "library"
    /\ UNCHANGED <<coreVars, env, instance, app, lifeVars>>

(* new LangChainStarter(): config = ConfigManager.getInstance().getConfig(), *)
(* then Logger, ModelManager and LangChainCore are built around it.         *)
LangChainStarter_constructor ==
    /\ Library
    /\ Len(cfgObjs) <= MaxUpdates
    /\ calls = NoCalls
    /\ LET r == getInstance(instance, env, cfgObjs, secs, cfgSlot) IN
        /\ SetCfg(r)
        /\ IF r.err = NoErr
           THEN /\ app' = [exists |-> TRUE, cfg |-> r.cfgSlot]
                /\ starterInitialized' = FALSE
                /\ mmInitialized' = FALSE
           ELSE UNCHANGED <<app, starterInitialized, mmInitialized>>
        /\ out' = [NoOut EXCEPT !.op = "LangChainStarter.constructor",
                                !.ev = IF r.err = NoErr THEN "return" ELSE "throw",
                                !.err = r.err, !.raised = r.err,
                                !.ref = r.cfgSlot,
                                !.constructed = r.constructed]
    /\ phase' = "library"
    /\ UNCHANGED <<coreVars, env, calls>>

(* Logger.setLogLevel(level) / Logger.enableConsoleLogging(enable) of the  *)
(* starter's logger: assignments into the logging section it refers to.    *)
LoggingRef == cfgObjs[app.cfg]["logging"]

Logger_setLogLevel(level) ==
    /\ Library
    /\ app.exists
    /\ secs' = [secs EXCEPT ![LoggingRef] =
                    [f \in DOMAIN @ \cup {"level"} |->
                        IF f = "level" THEN level ELSE @[f]]]
    /\ out' = [NoOut EXCEPT !.op = "Logger.setLogLevel", !.ev = "return"]
    /\ phase' = "library"
    /\ UNCHANGED <<coreVars, env, instance, cfgSlot, cfgObjs, app, lifeVars>>

Logger_enableConsoleLogging(enable) ==
    /\ Library
    /\ app.exists
    /\ secs' = [secs EXCEPT ![LoggingRef] =
                    [f \in DOMAIN @ \cup {"enableConsole"} |->
                        IF f = "enableConsole" THEN enable ELSE @[f]]]
    /\ out' = [NoOut EXCEPT !.op = "Logger.enableConsoleLogging",
                            !.ev = "return"]
    /\ phase' = "library"
    /\ UNCHANGED <<coreVars, env, instance, cfgSlot, cfgObjs, app, lifeVars>>

-----------------------------------------------------------------------------
(* Logger *)

LevelSet == {Levels[i] : i \in 1..Len(Levels)}

(* Array.prototype.indexOf: the 0-based index of the first occurrence, or  *)
(* -1 when the value does not occur                                        *)
indexOf(seq, x) ==
    IF \E i \in 1..Len(seq) : seq[i] = x
    THEN (CHOOSE i \in 1..Len(seq) :
            /\ seq[i] = x
            /\ \A j \in 1..Len(seq) : seq[j] = x => i <= j) - 1
    ELSE -1

(* level.toUpperCase() *)
toUpperCase(level) ==
    CASE level = "debug" -> "DEBUG"
      [] level = "info"  -> "INFO"
      [] level = "warn"  -> "WARN"
      [] level = "error" -> "ERROR"

(* shouldLog(level): logging is the logging section the Logger refers to;  *)
(* a level property that is absent reads as undefined, which indexOf does  *)
(* not find                                                                *)
shouldLog_strict(logging, level) ==
    indexOf(Levels, level) >
        (IF "level" \in DOMAIN logging
         THEN indexOf(Levels, logging["level"]) ELSE -1)

shouldLog(logging, level) ==
    indexOf(Levels, level) >=
        (IF "level" \in DOMAIN logging
         THEN indexOf(Levels, logging["level"]) ELSE -1)

(* log(level, message): the lines written with console.log *)
Logger_log(logging, level, message) ==
    IF ~("enableConsole" \in DOMAIN logging /\ logging["enableConsole"])
    THEN <<>>
    ELSE <<[tag |-> toUpperCase(level), message |-> message]>>

(* debug / info / warn / error (message) *)
Logger_method(logging, level, message) ==
    IF shouldLog(logging, level)
    THEN Logger_log(logging, level, message)
    ELSE <<>>

LoggerOp(level) ==
    CASE level = "debug" -> "Logger.debug"
      [] level = "info"  -> "Logger.info"
      [] level = "warn"  -> "Logger.warn"
      [] level = "error" -> "Logger.error"

(* app.getLogger().debug|info|warn|error("message") called by a client *)
Logger_call(level) ==
    /\ Library
    /\ app.exists
    /\ out' = [NoOut EXCEPT
                 !.op = LoggerOp(level), !.call = LoggerOp(level),
                 !.ev = "return",
                 !.logs = <<L(level, "message")>>,
                 !.lines = Logger_method(secs[LoggingRef], level, "message")]
    /\ phase' = "library"
    /\ UNCHANGED <<coreVars, env, cfgVars, app, lifeVars>>

-----------------------------------------------------------------------------
(* Results of synchronous code: the error thrown (or NoErr) and the logger *)
(* calls made                                                              *)

Res(e, logs) == [err |-> e, raised |-> e, logs |-> logs]

(* catch (error) { this.logger.error(msg, error); throw error; } *)
LogRethrow_wrap(res, msg) ==
    IF res.err = NoErr THEN res
    ELSE [res EXCEPT !.err = Err(msg, "catch"),
                     !.logs = Append(res.logs, L("error", msg))]

LogRethrow(res, msg) ==
    IF res.err = NoErr THEN res
    ELSE [res EXCEPT !.logs = Append(res.logs, L("error", msg))]

(* if (!initialized) throw new Error("ModelManager must be initialized...") *)
Gate(init, site) == IF init THEN NoErr ELSE Err(PreconditionMsg, site)

(* A gated mock body: entry log, the check, success log *)
Gated(init, site, entry, success) ==
    LET e == Gate(init, site)
    IN  Res(e, IF e = NoErr THEN <<L("info", entry), L("info", success)>>
                            ELSE <<L("info", entry)>>)

-----------------------------------------------------------------------------
(* ModelManager accessors *)

getChatModel(init) ==
    LET e == Gate(init, "ModelManager.getChatModel")
    IN  Res(e, IF e = NoErr THEN <<L("debug", "Getting chat model instance")>>
                            ELSE <<>>)

ModelManager_getEmbeddings(init) ==
    LET e == Gate(init, "ModelManager.getEmbeddings")
    IN  Res(e, IF e = NoErr THEN <<L("debug", "Getting embeddings instance")>>
                            ELSE <<>>)

getTextSplitter(init) ==
    LET e == Gate(init, "ModelManager.getTextSplitter")
    IN  Res(e, IF e = NoErr THEN <<L("debug", "Getting text splitter instance")>>
                            ELSE <<>>)

-----------------------------------------------------------------------------
(* LangChainCore operations; init is modelManager.isInitialized() *)

simpleChat(init) ==
    LogRethrow(Gated(init, "LangChainCore.simpleChat",
                     "Executing simple chat...",
                     "Simple chat completed successfully"),
               "Error in simple chat")

createPromptChain(init) ==
    LogRethrow(Gated(init, "LangChainCore.createPromptChain",
                     "Creating prompt chain...",
                     "Prompt chain created successfully"),
               "Error creating prompt chain")

createVectorStore(init) ==
    LogRethrow(Gated(init, "LangChainCore.createVectorStore",
                     "Creating vector store...",
                     "Vector store created successfully"),
               "Error creating vector store")

(* createRAGChain has no check of its own: it awaits createVectorStore *)
createRAGChain_ungated(init) ==
    Res(NoErr, <<L("info", "Creating RAG chain..."),
                 L("info", "RAG chain created successfully")>>)

createRAGChain(init) ==
    LET vs == createVectorStore(init)
    IN  LogRethrow(
            [vs EXCEPT !.logs =
                <<L("info", "Creating RAG chain...")>> \o vs.logs \o
                (IF vs.err = NoErr
                 THEN <<L("info", "RAG chain created successfully")>>
                 ELSE <<>>)],
            "Error creating RAG chain")

similaritySearch(init) ==
    LET vs == createVectorStore(init)
    IN  LogRethrow(
            [vs EXCEPT !.logs =
                <<L("info", "Performing similarity search...")>> \o vs.logs \o
                (IF vs.err = NoErr
                 THEN <<L("info", "Similarity search completed")>>
                 ELSE <<>>)],
            "Error in similarity search")

LangChainCore_getEmbeddings(init) ==
    LogRethrow(Gated(init, "LangChainCore.getEmbeddings",
                     "Getting embeddings for text...",
                     "Embeddings generated successfully"),
               "Error getting embeddings")

splitText(init) ==
    LogRethrow(Gated(init, "LangChainCore.splitText",
                     "Splitting text into chunks...",
                     "Text split successfully"),
               "Error splitting text")

AccessorOps == {"ModelManager.getChatModel", "ModelManager.getEmbeddings",
                "ModelManager.getTextSplitter"}

CoreOps == {"simpleChat", "createPromptChain", "createVectorStore",
            "createRAGChain", "similaritySearch", "getEmbeddings",
            "splitText"}

GatedOps == AccessorOps \cup CoreOps

OpResult(op, init) ==
    CASE op = "ModelManager.getChatModel"    -> getChatModel(init)
      [] op = "ModelManager.getEmbeddings"   -> ModelManager_getEmbeddings(init)
      [] op = "ModelManager.getTextSplitter" -> getTextSplitter(init)
      [] op = "simpleChat"                   -> simpleChat(init)
      [] op = "createPromptChain"            -> createPromptChain(init)
      [] op = "createVectorStore"            -> createVectorStore(init)
      [] op = "createRAGChain"               -> createRAGChain(init)
      [] op = "similaritySearch"             -> similaritySearch(init)
      [] op = "getEmbeddings"                -> LangChainCore_getEmbeddings(init)
      [] op = "splitText"                    -> splitText(init)

(* A client calls an accessor of the ModelManager or an operation of a     *)
(* LangChainCore built around it                                           *)
CallOp(op) ==
    /\ Library
    /\ app.exists
    /\ LET r == OpResult(op, mmInitialized) IN
       out' = [NoOut EXCEPT !.op = op, !.call = op,
                            !.ev = IF r.err = NoErr THEN "return" ELSE "throw",
                            !.err = r.err,
                            !.raised = r.raised,
                            !.logs = r.logs]
    /\ phase' = "library"
    /\ UNCHANGED <<coreVars, env, cfgVars, app, lifeVars>>

-----------------------------------------------------------------------------
(* Values returned by the LangChainCore operations and their closures *)

Min(a, b) == IF a < b THEN a ELSE b
Max(a, b) == IF a > b THEN a ELSE b

(* Array.prototype.slice / String.prototype.slice (start, end): a negative *)
(* index counts from the end, an index beyond the length is the length     *)
RelativeIndex(n, len) == IF n < 0 THEN Max(len + n, 0) ELSE Min(n, len)

slice(s, start, end) ==
    IF RelativeIndex(start, Len(s)) < RelativeIndex(end, Len(s))
    THEN SubSeq(s, RelativeIndex(start, Len(s)) + 1,
                   RelativeIndex(end, Len(s)))
    ELSE <<>>

DefaultK == 4        \* k: number = 4
Score10  == 8        \* score: 0.8, in tenths

(* a parameter with a default value: the default replaces undefined *)
OrDefaultArg(a, dflt) == IF a.given THEN a.val ELSE dflt

(* documents.slice(0, k).map(doc => ({ content: doc, score: 0.8 })) *)
mapScore(docs) == [i \in 1..Len(docs) |-> [content |-> docs[i], score |-> Score10]]

(* vectorStore.search(query, k = 4) on the captured documents *)
search(documents, query, k) ==
    mapScore(slice(documents, 0, OrDefaultArg(k, DefaultK)))

(* ragChain.call({ query }): relevantDocs = await vectorStore.search(query) *)
ragCall(documents, query) ==
    [result |-> [prefix |-> "RAG response based on: ",
                 joined |-> [i \in 1..Len(search(documents, query, NoArg)) |->
                               search(documents, query, NoArg)[i].content]],
     sourceDocuments |-> search(documents, query, NoArg)]

(* promptChain.call(variables): `Processed: ${JSON.stringify(variables)}` *)
promptCall(variables) == [prefix |-> "Processed: ", json |-> variables]

(* similaritySearch(query, documents, k = 4): vectorStore.search(query, k) *)
similaritySearchValue(query, documents, k) ==
    search(documents, query, Arg(OrDefaultArg(k, DefaultK)))

(* the body of a closure: no check of the ModelManager and no logger call *)
closureBody_gated(init) == Res(Gate(init, "closure"), <<>>)

closureBody(init) == Res(NoErr, <<>>)

(* The inputs explored *)
Corpus   == <<"d1", "d2", "d3", "d4", "d5", "d6", "d7", "d8">>
Reverse(s) == [i \in 1..Len(s) |-> s[Len(s) + 1 - i]]
DocLists == {<<>>, SubSeq(Corpus, 1, 2), Reverse(SubSeq(Corpus, 1, 3)),
             SubSeq(Corpus, 1, MaxDocs)}
Queries  == {"q1", "q2"}
KArgs    == {NoArg} \cup {Arg(n) : n \in {0 - 1, 0, 2, MaxDocs + 1}}
Templates == {"Hello {name}"}

OpOut(op, r) ==
    [NoOut EXCEPT !.op = op, !.call = op,
                  !.ev = IF r.err = NoErr THEN "return" ELSE "throw",
                  !.err = r.err, !.raised = r.raised, !.logs = r.logs]

(* core.createVectorStore(docs): the client keeps the store it returns *)
LangChainCore_createVectorStore(docs) ==
    /\ Library /\ app.exists
    /\ LET r == createVectorStore(mmInitialized) IN
        /\ out' = [OpOut("createVectorStore", r) EXCEPT !.docs = docs]
        /\ held' = IF r.err = NoErr
                   THEN [NoClosure EXCEPT !.kind = "store", !.documents = docs]
                   ELSE held
    /\ phase' = "library"
    /\ UNCHANGED <<split, env, cfgVars, app, lifeVars>>

(* core.createRAGChain(docs): the chain holds a store built from docs *)
LangChainCore_createRAGChain(docs) ==
    /\ Library /\ app.exists
    /\ LET r == createRAGChain(mmInitialized) IN
        /\ out' = [OpOut("createRAGChain", r) EXCEPT !.docs = docs]
        /\ held' = IF r.err = NoErr
                   THEN [NoClosure EXCEPT !.kind = "rag", !.documents = docs]
                   ELSE held
    /\ phase' = "library"
    /\ UNCHANGED <<split, env, cfgVars, app, lifeVars>>

(* core.createPromptChain(template) *)
LangChainCore_createPromptChain(template) ==
    /\ Library /\ app.exists
    /\ LET r == createPromptChain(mmInitialized) IN
        /\ out' = OpOut("createPromptChain", r)
        /\ held' = IF r.err = NoErr
                   THEN [NoClosure EXCEPT !.kind = "prompt", !.template = template]
                   ELSE held
    /\ phase' = "library"
    /\ UNCHANGED <<split, env, cfgVars, app, lifeVars>>

(* core.similaritySearch(query, docs, k) *)
LangChainCore_similaritySearch(query, docs, k) ==
    /\ Library /\ app.exists
    /\ LET r == similaritySearch(mmInitialized) IN
        out' = [OpOut("similaritySearch", r) EXCEPT
                  !.docs = docs, !.query = query, !.k = k,
                  !.value = IF r.err = NoErr
                            THEN similaritySearchValue(query, docs, k)
                            ELSE <<>>]
    /\ phase' = "library"
    /\ UNCHANGED <<coreVars, env, cfgVars, app, lifeVars>>

(* store.search(query, k) on the vector store the client holds *)
VectorStore_search(query, k) ==
    /\ Library
    /\ held.kind = "store"
    /\ LET r == closureBody(mmInitialized) IN
        out' = [OpOut("VectorStore.search", r) EXCEPT
                  !.docs = held.documents, !.query = query, !.k = k,
                  !.value = IF r.err = NoErr
                            THEN search(held.documents, query, k)
                            ELSE <<>>]
    /\ phase' = "library"
    /\ UNCHANGED <<coreVars, env, cfgVars, app, lifeVars>>

(* ragChain.call({ query }) on the RAG chain the client holds *)
RAGChain_call(query) ==
    /\ Library
    /\ held.kind = "rag"
    /\ LET r == closureBody(mmInitialized) IN
        out' = [OpOut("RAGChain.call", r) EXCEPT
                  !.docs = held.documents, !.query = query,
                  !.value = IF r.err = NoErr
                            THEN <<ragCall(held.documents, query)>>
                            ELSE <<>>]
    /\ phase' = "library"
    /\ UNCHANGED <<coreVars, env, cfgVars, app, lifeVars>>

(* promptChain.call(variables) on the prompt chain the client holds *)
PromptChain_call(variables) ==
    /\ Library
    /\ held.kind = "prompt"
    /\ LET r == closureBody(mmInitialized) IN
        out' = [OpOut("PromptChain.call", r) EXCEPT
                  !.value = IF r.err = NoErr
                            THEN <<promptCall(variables)>>
                            ELSE <<>>]
    /\ phase' = "library"
    /\ UNCHANGED <<coreVars, env, cfgVars, app, lifeVars>>

-----------------------------------------------------------------------------
(* LangChainStarter.getCore() *)
getCore(init) ==
    Res(IF init THEN NoErr ELSE Err(StarterMsg, "LangChainStarter.getCore"),
        <<>>)

LangChainStarter_getCore ==
    /\ Library
    /\ app.exists
    /\ LET r == getCore(starterInitialized) IN
       out' = [NoOut EXCEPT !.op = "LangChainStarter.getCore",
                            !.call = "LangChainStarter.getCore",
                            !.ev = IF r.err = NoErr THEN "return" ELSE "throw",
                            !.err = r.err, !.raised = r.err]
    /\ phase' = "library"
    /\ UNCHANGED <<coreVars, env, cfgVars, app, lifeVars>>

-----------------------------------------------------------------------------
(* Lifecycle: ModelManager and LangChainStarter                             *)
(*                                                                         *)
(* A call that reaches an await is kept in calls until it completes:       *)
(*   kind    the client's call                                             *)
(*   pc      "mmDelay"  inside simulateInitialization (the 100 ms timer)   *)
(*           "afterMM"  LangChainStarter.initialize, resumed after         *)
(*                      awaiting modelManager.initialize()                 *)
(*           "connWait" inside testConnection (the 50 ms timer)            *)
(*   timer   position of the call's 100 ms timer among the pending ones    *)
(*           (1 = set first, fires first; 0 = no timer pending): timers of *)
(*           one duration fire in the order they were set                  *)
(*   delayed the call has performed the initialization delay               *)
(*   mmDone  history: an initialization step of another call completed     *)
(*           while this call was at its delay                              *)
(*   fDone   history: another LangChainStarter initialize succeeded since  *)
(*           this call began                                               *)

MMInit     == "ModelManager.initialize"
MMReinit   == "ModelManager.reinitialize"
AppInit    == "LangChainStarter.initialize"
AppReinit  == "LangChainStarter.reinitialize"
MMKinds    == {MMInit, MMReinit}
AppKinds   == {AppInit, AppReinit}

Idle == [kind |-> "", pc |-> "idle", timer |-> 0, delayed |-> FALSE,
         mmDone |-> FALSE, fDone |-> FALSE]

(* the 100 ms timers that are pending *)
PendingTimers == {c \in 1..MaxCalls : calls[c].pc = "mmDelay"}

Call(kind, pc) ==
    [Idle EXCEPT !.kind = kind, !.pc = pc,
                 !.timer = IF pc = "mmDelay"
                           THEN Cardinality(PendingTimers) + 1 ELSE 0]

HasFree == \E c \in 1..MaxCalls : calls[c].pc = "idle"
Free    == CHOOSE c \in 1..MaxCalls :
              /\ calls[c].pc = "idle"
              /\ \A d \in 1..MaxCalls : calls[d].pc = "idle" => c <= d

(* ModelManager.initialize() up to its first await: whether it goes on to  *)
(* the delay, and the logger calls made                                    *)
mmInitializeStart_noGuard(init) ==
    [delay |-> TRUE, logs |-> <<L("info", "Initializing ModelManager...")>>]

mmInitializeStart(init) ==
    IF init
    THEN [delay |-> FALSE,
          logs |-> <<L("warn", "ModelManager already initialized")>>]
    ELSE [delay |-> TRUE,
          logs |-> <<L("info", "Initializing ModelManager...")>>]

(* the timer callback of simulateInitialization and the two statements     *)
(* that follow the await                                                   *)
DelayDoneLogs == <<L("debug", "Model initialization simulated"),
                   L("info", "ModelManager initialized successfully")>>

(* ModelManager.initialize(), the statement after the await:               *)
(* this.initialized = true                                                 *)
mmCompleted_stale(init) == init

mmCompleted(init) == TRUE

(* ModelManager.reinitialize(), first statement: this.initialized = false  *)
mmReset_keep(init) == init

mmReset(init) == FALSE

(* LangChainStarter.reinitialize(), first statement *)
starterReset_keep(init) == init

starterReset(init) == FALSE

(* testConnection(): fault is an exception raised inside its try block     *)
(* (by the connection test that replaces the simulated one); the catch     *)
(* turns it into the return value false.                                   *)
testConnection(fault) ==
    IF fault
    THEN [value |-> FALSE,
          logs |-> <<L("info", "Testing model connection..."),
                     L("error", "Model connection test failed")>>]
    ELSE [value |-> TRUE,
          logs |-> <<L("info", "Testing model connection..."),
                     L("info", "Model connection test successful")>>]

(* LangChainStarter.initialize() from the result of testConnection on:     *)
(* the flag it leaves, the error it throws and the logger calls            *)
finishInitialize_ignoreResult(sInit, connectionOk) ==
    [flag |-> TRUE, err |-> NoErr, raised |-> NoErr,
     logs |-> <<L("info", "LangChain starter initialized successfully")>>]

finishInitialize(sInit, connectionOk) ==
    IF connectionOk
    THEN [flag |-> TRUE, err |-> NoErr, raised |-> NoErr,
          logs |-> <<L("info", "LangChain starter initialized successfully")>>]
    ELSE [flag |-> sInit] @@
         LogRethrow(Res(Err(ConnectionMsg, "LangChainStarter.initialize"), <<>>),
                    "Failed to initialize LangChain starter")

(* ModelManager.initialize() called by a client through getModelManager() *)
ModelManager_initialize ==
    /\ Library
    /\ app.exists
    /\ LET st == mmInitializeStart(mmInitialized) IN
       IF st.delay
       THEN /\ HasFree
            /\ calls' = [calls EXCEPT ![Free] = Call(MMInit, "mmDelay")]
            /\ out' = [NoOut EXCEPT !.op = MMInit, !.call = MMInit,
                                    !.begin = TRUE, !.ev = "suspend", !.logs = st.logs]
       ELSE /\ calls' = calls
            /\ out' = [NoOut EXCEPT !.op = MMInit, !.call = MMInit,
                                    !.begin = TRUE, !.ev = "return", !.logs = st.logs]
    /\ phase' = "library"
    /\ UNCHANGED <<coreVars, env, cfgVars, app, starterInitialized, mmInitialized>>

(* ModelManager.reinitialize(): the reset and initialize() up to its await *)
ModelManager_reinitialize ==
    /\ Library
    /\ app.exists
    /\ LET flag == mmReset(mmInitialized)
           st   == mmInitializeStart(flag)
       IN  /\ mmInitialized' = flag
           /\ IF st.delay
              THEN /\ HasFree
                   /\ calls' = [calls EXCEPT ![Free] = Call(MMReinit, "mmDelay")]
                   /\ out' = [NoOut EXCEPT !.op = MMReinit, !.call = MMReinit,
                                           !.begin = TRUE, !.ev = "suspend", !.logs = st.logs]
              ELSE /\ calls' = calls
                   /\ out' = [NoOut EXCEPT !.op = MMReinit, !.call = MMReinit,
                                           !.begin = TRUE, !.ev = "return", !.logs = st.logs]
    /\ phase' = "library"
    /\ UNCHANGED <<coreVars, env, cfgVars, app, starterInitialized>>

(* LangChainStarter.initialize() up to its first await, with the flag      *)
(* sInit read by its guard                                                 *)
StarterStart(kind, sInit) ==
    IF sInit
    THEN /\ calls' = calls
         /\ out' = [NoOut EXCEPT
                      !.op = kind, !.call = kind, !.begin = TRUE, !.ev = "return",
                      !.logs = <<L("warn", "LangChain starter already initialized")>>]
    ELSE LET st == mmInitializeStart(mmInitialized) IN
         /\ HasFree
         /\ calls' = [calls EXCEPT ![Free] =
                         Call(kind, IF st.delay THEN "mmDelay" ELSE "afterMM")]
         /\ out' = [NoOut EXCEPT
                      !.op = kind, !.call = kind, !.begin = TRUE, !.ev = "suspend",
                      !.logs = <<L("info", "Initializing LangChain starter...")>>
                               \o st.logs]

LangChainStarter_initialize ==
    /\ Library
    /\ app.exists
    /\ StarterStart(AppInit, starterInitialized)
    /\ phase' = "library"
    /\ UNCHANGED <<coreVars, env, cfgVars, app, starterInitialized, mmInitialized>>

LangChainStarter_reinitialize ==
    /\ Library
    /\ app.exists
    /\ LET flag == starterReset(starterInitialized) IN
       /\ starterInitialized' = flag
       /\ StarterStart(AppReinit, flag)
    /\ phase' = "library"
    /\ UNCHANGED <<coreVars, env, cfgVars, app, mmInitialized>>

(* The 100 ms timer of call c fires: simulateInitialization resolves and   *)
(* ModelManager.initialize() sets the flag.  A client's call returns; a    *)
(* LangChainStarter call is resumed at its next statement.                 *)
simulateInitialization_done(c) ==
    /\ calls[c].pc = "mmDelay"
    /\ calls[c].timer = 1
    /\ mmInitialized' = mmCompleted(mmInitialized)
    /\ calls' = [d \in 1..MaxCalls |->
                   IF d = c
                   THEN IF calls[c].kind \in MMKinds THEN Idle
                        ELSE [calls[c] EXCEPT !.pc = "afterMM",
                                              !.timer = 0,
                                              !.delayed = TRUE,
                                              !.mmDone = FALSE]
                   ELSE IF calls[d].pc = "mmDelay"
                        THEN [calls[d] EXCEPT !.mmDone = TRUE,
                                              !.timer = @ - 1]
                        ELSE calls[d]]
    /\ out' = [NoOut EXCEPT
                 !.op = MMInit, !.call = calls[c].kind,
                 !.ev = IF calls[c].kind \in MMKinds THEN "return" ELSE "resume",
                 !.overtaken = calls[c].mmDone,
                 !.delays = 1, !.logs = DelayDoneLogs]
    /\ UNCHANGED <<coreVars, env, cfgVars, app, starterInitialized, phase>>

(* LangChainStarter.initialize() of call c goes on to testConnection(),    *)
(* which logs and awaits its 50 ms timer                                   *)
testConnection_start(c) ==
    /\ calls[c].pc = "afterMM"
    /\ calls' = [calls EXCEPT ![c].pc = "connWait"]
    /\ out' = [NoOut EXCEPT
                 !.op = "ModelManager.testConnection", !.call = calls[c].kind,
                 !.ev = "suspend",
                 !.logs = <<Head(testConnection(FALSE).logs)>>]
    /\ UNCHANGED <<coreVars, env, cfgVars, app, starterInitialized, mmInitialized, phase>>

(* testConnection() of call c completes and LangChainStarter.initialize()  *)
(* runs to its end                                                         *)
testConnection_done(c, fault) ==
    /\ calls[c].pc = "connWait"
    /\ LET tc  == testConnection(fault)
           fin == finishInitialize(starterInitialized, tc.value)
       IN  /\ starterInitialized' = fin.flag
           /\ calls' = [d \in 1..MaxCalls |->
                          IF d = c THEN Idle
                          ELSE IF fin.err = NoErr /\ calls[d].kind \in AppKinds
                               THEN [calls[d] EXCEPT !.fDone = TRUE]
                               ELSE calls[d]]
           /\ out' = [NoOut EXCEPT
                        !.op = AppInit, !.call = calls[c].kind,
                        !.ev = IF fin.err = NoErr THEN "return" ELSE "throw",
                        !.err = fin.err, !.raised = fin.raised,
                        !.overtaken = calls[c].fDone,
                        !.delays = IF calls[c].delayed THEN 1 ELSE 0,
                        !.conn = IF tc.value THEN "ok" ELSE "failed",
                        !.logs = Tail(tc.logs) \o fin.logs]
    /\ UNCHANGED <<coreVars, env, cfgVars, app, mmInitialized, phase>>

-----------------------------------------------------------------------------
(* Top-level run paths.  The LangChainStarter they build is local to them, *)
(* so nothing else acts on it and a run is one step.                       *)

(* app.initialize() on a newly built starter, run to its end *)
initializeFrom(tc, fin) ==
    [err |-> fin.err, raised |-> fin.raised,
     logs |-> <<L("info", "Initializing LangChain starter...")>>
              \o mmInitializeStart(FALSE).logs \o DelayDoneLogs
              \o tc.logs \o fin.logs]

initializeFresh(fault) ==
    initializeFrom(testConnection(fault),
                   finishInitialize(FALSE, testConnection(fault).value))

(* the six examples of runExamples, on the starter's core *)
ExampleOps == <<"simpleChat", "createPromptChain", "createRAGChain",
                "similaritySearch", "getEmbeddings", "splitText">>

ExampleTitles == <<"Example 1: Simple Chat", "Example 2: Prompt Chain",
                   "Example 3: RAG (Retrieval-Augmented Generation)",
                   "Example 4: Similarity Search",
                   "Example 5: Text Embeddings", "Example 6: Text Splitting">>

(* the examples run in order; the first throw ends the sequence.  res is   *)
(* the result each operation gives.                                        *)
FirstFailure(res) ==
    IF \A i \in DOMAIN res : res[i].err = NoErr THEN 0
    ELSE CHOOSE i \in DOMAIN res :
            /\ res[i].err # NoErr
            /\ \A j \in DOMAIN res : res[j].err # NoErr => i <= j

ExampleLogs(res, stop) ==
    [i \in DOMAIN res |->
        IF stop = 0 \/ i <= stop
        THEN <<L("info", ExampleTitles[i])>> \o res[i].logs
        ELSE <<>>]

Concat6(q) == q[1] \o q[2] \o q[3] \o q[4] \o q[5] \o q[6]

examplesOf(res, stop) ==
    IF stop = 0
    THEN Res(NoErr,
             Append(Concat6(ExampleLogs(res, stop)),
                    L("info", "=== Examples completed successfully ===")))
    ELSE [res[stop] EXCEPT !.logs = Concat6(ExampleLogs(res, stop))]

examplesFor(res) == examplesOf(res, FirstFailure(res))

examples(init) ==
    examplesFor([i \in 1..Len(ExampleOps) |-> OpResult(ExampleOps[i], init)])

(* the try block of runExamples from the result of app.initialize() on *)
examplesAfter(ini, ex) ==
    IF ini.err # NoErr THEN ini
    ELSE [ex EXCEPT !.logs =
            ini.logs
            \o <<L("info", "=== Running LangChain Starter Examples ===")>>
            \o ex.logs]

(* catch (error) { app.getLogger().error("Error running examples", error) } *)
catchExamples(body) ==
    IF body.err = NoErr THEN body
    ELSE [err |-> NoErr, raised |-> body.raised,
          logs |-> Append(body.logs, L("error", "Error running examples"))]

(* runExamples(): the constructor is outside the try block; the catch logs *)
(* and does not rethrow.  ctor is the error of new LangChainStarter().     *)
runExamples(ctor, fault) ==
    IF ctor # NoErr THEN Res(ctor, <<>>)
    ELSE catchExamples(examplesAfter(initializeFresh(fault), examples(TRUE)))

(* main().catch: console.error("Fatal error:", error); process.exit(1) *)
catchFatal(re) ==
    IF re.err # NoErr
    THEN [code |-> 1, err |-> re.err, raised |-> re.raised,
          logs |-> Append(re.logs, L("console.error", "Fatal error:"))]
    ELSE [code |-> 0, err |-> NoErr, raised |-> re.raised, logs |-> re.logs]

(* the try/catch of main's default path: the catch prints and exits *)
catchDefault(body) ==
    IF body.err # NoErr
    THEN [code |-> 1, err |-> NoErr, raised |-> body.raised,
          logs |-> Append(body.logs,
                     L("console.error",
                       "Failed to initialize LangChain starter:"))]
    ELSE [code |-> 0, err |-> NoErr, raised |-> NoErr, logs |-> body.logs]

(* main(): err is the error that leaves main() and reaches main().catch    *)
main(runEx, ctor, fault) ==
    IF runEx
    THEN catchFatal(runExamples(ctor, fault))
    ELSE catchDefault(IF ctor # NoErr THEN Res(ctor, <<>>)
                      ELSE initializeFresh(fault))

MainOut(runEx, r, fault, m) ==
    [NoOut EXCEPT !.op = "main", !.call = "main",
                  !.ev = "exit", !.code = m.code,
                  !.err = m.err, !.raised = m.raised,
                  !.arg = IF runEx THEN 1 ELSE 0,
                  !.conn = IF r.err # NoErr THEN "none"
                           ELSE IF fault THEN "failed" ELSE "ok",
                  !.constructed = r.constructed,
                  !.logs = m.logs]

MainStep(runEx, fault, r) ==
    /\ SetCfg(r)
    /\ out' = MainOut(runEx, r, fault, main(runEx, r.err, fault))

(* The file is executed directly: main() runs and the process ends *)
Main(runEx, fault) ==
    /\ phase = "start"
    /\ MainStep(runEx, fault,
                getInstance(instance, env, cfgObjs, secs, cfgSlot))
    /\ phase' = "exited"
    /\ UNCHANGED <<coreVars, env, app, lifeVars>>

(* Module load: dotenv has filled process.env; nothing is constructed *)
InitConfig ==
    /\ env \in EnvValues
    /\ instance = 0
    /\ cfgSlot = 0
    /\ cfgObjs = <<>>
    /\ secs = <<>>
    /\ app = [exists |-> FALSE, cfg |-> 0]
    /\ starterInitialized = FALSE
    /\ mmInitialized = FALSE
    /\ calls = NoCalls
    /\ phase = "start"
    /\ held = NoClosure
    /\ split = NoSplit
    /\ out = NoOut

NextConfig ==
    \/ ConfigManager_getInstance
    \/ ConfigManager_getConfig
    \/ \E i \in 1..Len(Partials) : ConfigManager_updateConfig(i)
    \/ LangChainStarter_constructor
    \/ \E l \in LevelSet : Logger_setLogLevel(l)
    \/ \E b \in BOOLEAN : Logger_enableConsoleLogging(b)
    \/ \E l \in LevelSet : Logger_call(l)
    \/ \E op \in GatedOps : CallOp(op)
    \/ LangChainStarter_getCore
    \/ \E runEx \in BOOLEAN, fault \in BOOLEAN : Main(runEx, fault)

SpecConfig == InitConfig /\ [][NextConfig]_vars

-----------------------------------------------------------------------------
(* The state after new LangChainStarter() with OPENAI_API_KEY set *)
Init ==
    LET r == getInstance(0, EnvSet("sk-test"), <<>>, <<>>, 0) IN
    /\ env = EnvSet("sk-test")
    /\ instance = r.instance
    /\ cfgSlot = r.cfgSlot
    /\ cfgObjs = r.cfgObjs
    /\ secs = r.secs
    /\ app = [exists |-> TRUE, cfg |-> r.cfgSlot]
    /\ starterInitialized = FALSE
    /\ mmInitialized = FALSE
    /\ calls = NoCalls
    /\ phase = "library"
    /\ held = NoClosure
    /\ split = NoSplit
    /\ out = NoOut

Next ==
    \/ ModelManager_initialize
    \/ ModelManager_reinitialize
    \/ LangChainStarter_initialize
    \/ LangChainStarter_reinitialize
    \/ \E c \in 1..MaxCalls : simulateInitialization_done(c)
    \/ \E c \in 1..MaxCalls : testConnection_start(c)
    \/ \E c \in 1..MaxCalls, fault \in BOOLEAN : testConnection_done(c, fault)
    \/ \E op \in GatedOps : CallOp(op)
    \/ LangChainStarter_getCore

Spec == Init /\ [][Next]_vars

-----------------------------------------------------------------------------
(* The core and the closures it returns, on the starter of Init: the       *)
(* ModelManager's lifecycle calls and the operations that return values    *)
NextCore ==
    \/ ModelManager_initialize
    \/ ModelManager_reinitialize
    \/ \E c \in 1..MaxCalls : simulateInitialization_done(c)
    \/ \E docs \in DocLists : LangChainCore_createVectorStore(docs)
    \/ \E docs \in DocLists : LangChainCore_createRAGChain(docs)
    \/ \E t \in Templates : LangChainCore_createPromptChain(t)
    \/ \E q \in Queries, docs \in DocLists, k \in KArgs :
          LangChainCore_similaritySearch(q, docs, k)
    \/ \E q \in Queries, k \in KArgs : VectorStore_search(q, k)
    \/ \E q \in Queries : RAGChain_call(q)
    \/ \E v \in {"{}", "{name:x}"} : PromptChain_call(v)

SpecCore == Init /\ [][NextCore]_vars

-----------------------------------------------------------------------------
(* splitText.  Its loop is synchronous code: it is modelled one iteration  *)
(* a step, and nothing else runs until it has returned.                    *)

(* a text is the sequence of its characters *)
Alphabet == <<"a", "b", "c", "d", "e", "f", "g", "h", "i", "j", "k", "l">>
Texts    == {SubSeq(Alphabet, 1, n) : n \in 0..MaxTextLen}

(* the chunk sizes and overlaps a configuration holds: parseInt of         *)
(* CHUNK_SIZE / CHUNK_OVERLAP, or the numbers given to updateConfig        *)
ChunkSizes    == {0 - 1, 0, 1, 2, 3, 5, DefaultChunkSize}
ChunkOverlaps == {0, 2, DefaultChunkOverlap}

EmbeddingsPartial(cs, co) ==
    [embeddings |-> [model |-> "text-embedding-ada-002",
                     chunkSize |-> cs, chunkOverlap |-> co]]

(* this.modelManager.getConfig().embeddings.chunkSize *)
chunkSizeOf(objs, ss, cfg) == ss[objs[cfg]["embeddings"]]["chunkSize"]

Splitting == split.pc = "loop"

(* for (let i = 0; i < text.length; i += chunkSize) : the condition *)
splitCondition(sp) == sp.i < Len(sp.text)

(* chunks.push(text.slice(i, i + chunkSize)); i += chunkSize *)
splitBody_short(sp, chunkSize) ==
    [sp EXCEPT !.chunks = Append(@, slice(sp.text, sp.i, sp.i + chunkSize - 1)),
               !.i = @ + chunkSize]

splitBody(sp, chunkSize) ==
    [sp EXCEPT !.chunks = Append(@, slice(sp.text, sp.i, sp.i + chunkSize)),
               !.i = @ + chunkSize]

(* core.splitText(text): the entry log and the check; the loop starts *)
LangChainCore_splitText(text) ==
    /\ Library /\ app.exists
    /\ ~Splitting
    /\ LET r == splitText(mmInitialized) IN
        IF r.err # NoErr
        THEN /\ out' = [OpOut("splitText", r) EXCEPT !.text = text]
             /\ split' = split
        ELSE /\ out' = [NoOut EXCEPT !.op = "splitText", !.call = "splitText",
                                     !.ev = "run", !.begin = TRUE,
                                     !.text = text,
                                     !.logs = <<Head(r.logs)>>]
             /\ split' = [pc |-> "loop", text |-> text, i |-> 0,
                          chunks |-> <<>>]
    /\ phase' = "library"
    /\ UNCHANGED <<held, env, cfgVars, app, lifeVars>>

(* one iteration of the loop *)
splitText_iterate ==
    /\ Splitting
    /\ splitCondition(split)
    /\ Len(split.chunks) < MaxChunks
    /\ split' = splitBody(split, chunkSizeOf(cfgObjs, secs, app.cfg))
    /\ out' = [NoOut EXCEPT !.op = "splitText", !.call = "splitText",
                            !.ev = "run", !.text = split.text]
    /\ UNCHANGED <<held, env, cfgVars, app, lifeVars, phase>>

(* the condition is false: the success log and return chunks *)
splitText_return ==
    /\ Splitting
    /\ ~splitCondition(split)
    /\ split' = NoSplit
    /\ out' = [NoOut EXCEPT !.op = "splitText", !.call = "splitText",
                            !.ev = "return", !.text = split.text,
                            !.value = split.chunks,
                            !.logs = Tail(splitText(TRUE).logs)]
    /\ UNCHANGED <<held, env, cfgVars, app, lifeVars, phase>>

(* The state after ConfigManager.getInstance().updateConfig({embeddings})  *)
(* and new LangChainStarter()                                              *)
InitSplitFrom(r, u) ==
    /\ env = EnvSet("sk-test")
    /\ instance = r.instance
    /\ cfgSlot = u.cfgSlot
    /\ cfgObjs = u.cfgObjs
    /\ secs = u.secs
    /\ app = [exists |-> TRUE, cfg |-> u.cfgSlot]
    /\ starterInitialized = FALSE
    /\ mmInitialized = FALSE
    /\ calls = NoCalls
    /\ phase = "library"
    /\ held = NoClosure
    /\ split = NoSplit
    /\ out = NoOut

InitSplitWith(r, p) ==
    InitSplitFrom(r, updateConfig(r.cfgObjs, r.secs, r.cfgSlot, p))

InitSplit ==
    \E cs \in ChunkSizes, co \in ChunkOverlaps :
        InitSplitWith(getInstance(0, EnvSet("sk-test"), <<>>, <<>>, 0),
                      EmbeddingsPartial(cs, co))

NextSplit ==
    \/ ~Splitting /\ ModelManager_initialize
    \/ ~Splitting /\ ModelManager_reinitialize
    \/ \E c \in 1..MaxCalls : ~Splitting /\ simulateInitialization_done(c)
    \/ \E text \in Texts : LangChainCore_splitText(text)
    \/ splitText_iterate
    \/ splitText_return

SpecSplit == InitSplit /\ [][NextSplit]_vars

-----------------------------------------------------------------------------
(* Properties *)

InFlight(kind, pc) ==
    \E c \in 1..MaxCalls : calls[c].kind = kind /\ calls[c].pc = pc

(* A call of the given kind is suspended in calls' and was not in calls *)
Started(kind, pc) ==
    \E c \in 1..MaxCalls :
        /\ calls[c].pc = "idle"
        /\ calls'[c] = Call(kind, pc)

FailsPrecondition(o) == o.ev = "throw" /\ o.err.msg = PreconditionMsg

(* C1: whenever an accessor of the ModelManager or an operation of         *)
(* LangChainCore has been called, it failed with the "must be initialized" *)
(* error if the ModelManager's initialized flag is false and succeeded if  *)
(* the flag is true.                                                       *)
C1_Gating ==
    out.op \in GatedOps =>
        IF mmInitialized
        THEN out.ev = "return" /\ out.err = NoErr
        ELSE FailsPrecondition(out)

C1_Witness ==
    /\ out.op = "createRAGChain"
    /\ out.ev = "return"
    /\ mmInitialized

C3_Idempotent ==
    [][(/\ out.call = MMInit /\ out.ev = "return"
        /\ out'.call = MMInit /\ out'.begin)
       =>
       (/\ out'.ev = "return"
        /\ out'.delays = 0
        /\ out'.logs = <<L("warn", "ModelManager already initialized")>>
        /\ calls' = calls
        /\ mmInitialized /\ mmInitialized'
        /\ (out.delays = 1 => out.delays + out'.delays = 1))]_vars

C3_Witness ==
    /\ out.call = MMInit
    /\ out.begin
    /\ out.ev = "return"
    /\ out.logs = <<L("warn", "ModelManager already initialized")>>
    /\ mmInitialized
    /\ calls = NoCalls

(* C4 as stated: the flag becomes true only when an initialization delay   *)
(* completes and false only at the start of reinitialize(); reinitialize() *)
(* resets the flag, performs the delay and never the connection test; and  *)
(* the flag is false for as long as a reinitialize() is at its delay.      *)
C4_Original ==
    /\ [][~mmInitialized /\ mmInitialized' =>
            out'.op = MMInit /\ out'.delays = 1]_vars
    /\ [][mmInitialized /\ ~mmInitialized' =>
            out'.call = MMReinit /\ out'.begin]_vars
    /\ [](InFlight(MMReinit, "mmDelay") => ~mmInitialized)

(* C4: the flag becomes true only when an initialization delay completes   *)
(* and false only at the start of reinitialize(); reinitialize() always    *)
(* resets the flag and goes on to the delay, and never to the connection   *)
(* test; while a reinitialize() is at its delay the flag is false and the  *)
(* accessors fail, until an initialization step completes: its own, or     *)
(* that of another call that was at its delay at the same time.            *)
C4_Lifecycle ==
    /\ [][~mmInitialized /\ mmInitialized' =>
            out'.op = MMInit /\ out'.delays = 1]_vars
    /\ [][mmInitialized /\ ~mmInitialized' =>
            out'.call = MMReinit /\ out'.begin]_vars
    /\ [][out'.call = MMReinit /\ out'.begin =>
            /\ ~mmInitialized'
            /\ out'.ev = "suspend"
            /\ Started(MMReinit, "mmDelay")]_vars
    /\ [](\A c \in 1..MaxCalls :
            calls[c].kind = MMReinit =>
                /\ calls[c].pc = "mmDelay"
                /\ (~calls[c].mmDone => ~mmInitialized))
    /\ [](out.call = MMReinit =>
            /\ out.op \in {MMReinit, MMInit}
            /\ out.conn = "none"
            /\ (out.ev = "return" => out.delays = 1 /\ mmInitialized))
    /\ [](/\ out.op \in AccessorOps
          /\ \E c \in 1..MaxCalls :
                calls[c].kind = MMReinit /\ ~calls[c].mmDone
          => FailsPrecondition(out))

C4_Witness ==
    /\ out.op \in AccessorOps
    /\ FailsPrecondition(out)
    /\ \E c \in 1..MaxCalls : calls[c].kind = MMReinit /\ ~calls[c].mmDone
    /\ starterInitialized

(* C5 as stated: reinitialize() on an initialized starter resets the       *)
(* starter's flag and goes on to the ModelManager's initialization delay;  *)
(* the flag becomes true only when the connection test has returned true.  *)
C5_Original ==
    /\ [][starterInitialized /\ out'.call = AppReinit /\ out'.begin =>
            /\ ~starterInitialized'
            /\ Started(AppReinit, "mmDelay")]_vars
    /\ [][~starterInitialized /\ starterInitialized' =>
            out'.op = AppInit /\ out'.conn = "ok"]_vars

(* C5: reinitialize() on an initialized starter resets the starter's flag  *)
(* and re-runs initialize(): it calls ModelManager.initialize(), which     *)
(* performs the delay only if the ModelManager's flag is false and         *)
(* otherwise logs the "already initialized" warning, then the connection   *)
(* test; the starter's flag becomes true only when the connection test     *)
(* has returned true.                                                      *)
C5_Reinitialize ==
    /\ [][starterInitialized /\ out'.call = AppReinit /\ out'.begin =>
            /\ ~starterInitialized'
            /\ out'.ev = "suspend"
            /\ IF mmInitialized
               THEN /\ Started(AppReinit, "afterMM")
                    /\ out'.logs[Len(out'.logs)] =
                          L("warn", "ModelManager already initialized")
               ELSE Started(AppReinit, "mmDelay")]_vars
    /\ [][out'.call = AppReinit /\ out'.op = AppInit =>
            /\ out'.conn \in {"ok", "failed"}
            /\ \E c \in 1..MaxCalls :
                  /\ calls[c].kind = AppReinit
                  /\ calls[c].pc = "connWait"
                  /\ calls'[c] = Idle
                  /\ out'.delays = (IF calls[c].delayed THEN 1 ELSE 0)]_vars
    /\ [](\A c \in 1..MaxCalls :
            calls[c].kind = AppReinit /\ calls[c].pc = "mmDelay"
                => ~calls[c].delayed)
    /\ [][~starterInitialized /\ starterInitialized' =>
            out'.op = AppInit /\ out'.conn = "ok"]_vars

C5_Witness ==
    /\ out.call = AppReinit
    /\ out.op = AppInit
    /\ out.ev = "return"
    /\ out.conn = "ok"
    /\ out.delays = 0
    /\ starterInitialized

KeyEmpty(e) == ~e.set \/ e.val = ""

Constructing == {"ConfigManager.getInstance", "LangChainStarter.constructor",
                 "main"}

(* C6: a getInstance() (called directly, by the LangChainStarter           *)
(* constructor or by a run path) constructs the configuration exactly when *)
(* no instance is stored; the construction fails, with the validation      *)
(* error, exactly when the API key resolved from the environment is empty; *)
(* a failed construction stores no instance; once an instance is stored    *)
(* every getInstance() returns it and leaves the store as it is.           *)
C6_GetInstance ==
    /\ [](instance \in {0, 1})
    /\ [][out'.op \in Constructing =>
            /\ out'.constructed <=> (instance = 0)
            /\ out'.constructed =>
                  /\ IsValidation(out'.raised) <=> KeyEmpty(env)
                  /\ IsValidation(out'.raised) =>
                        instance' = 0 /\ UNCHANGED cfgVars
                  /\ ~IsValidation(out'.raised) =>
                        /\ instance' = 1
                        /\ ~ApiKeyMissing(Cur'.openai)
            /\ ~out'.constructed => UNCHANGED cfgVars
            /\ out'.op = "ConfigManager.getInstance" =>
                  /\ out'.ref = instance'
                  /\ out'.ev = (IF instance' = 0 THEN "throw" ELSE "return")]_vars

C6_Witness ==
    /\ out.op = "ConfigManager.getInstance"
    /\ ~out.constructed
    /\ out.ev = "return"
    /\ out.ref = 1
    /\ instance = 1

(* C7: the configuration held by a constructed ConfigManager has a         *)
(* non-empty API key, whatever updateConfig calls have succeeded or        *)
(* failed; an updateConfig whose merged result has an empty API key fails  *)
(* with the configuration error.                                           *)
C7_ApiKeyInvariant ==
    /\ instance # 0 => ~ApiKeyMissing(Cur.openai)
    /\ (out.op = "ConfigManager.updateConfig" /\ ApiKeyMissing(Cur.openai))
          => (out.ev = "throw" /\ IsValidation(out.err))

(* C8: updateConfig({ openai: { temperature: 0.9 } }) on a valid           *)
(* configuration succeeds, sets the temperature and keeps the API key, the *)
(* model and the max tokens.                                               *)
C8_ReadmeUpdate ==
    [][(/\ out'.op = "ConfigManager.updateConfig"
        /\ DOMAIN Partials[out'.arg] = {"openai"}
        /\ DOMAIN Partials[out'.arg]["openai"] = {"temperature"}
        /\ ~ApiKeyMissing(Cur.openai))
       =>
       (/\ out'.ev = "return"
        /\ Cur'.openai["temperature"] = Partials[out'.arg]["openai"]["temperature"]
        /\ \A f \in DOMAIN Cur.openai \ {"temperature"} :
              /\ f \in DOMAIN Cur'.openai
              /\ Cur'.openai[f] = Cur.openai[f])]_vars

(* C9: updateConfig(partial) stores a newly built object in the            *)
(* ConfigManager's slot: every configuration object that existed before,   *)
(* and so every reference a component holds, reads as it did before the    *)
(* call, while the slot, which getConfig() returns, holds the old sections *)
(* overridden by those of the partial.                                     *)
C9_StaleSnapshot ==
    /\ [][out'.op = "ConfigManager.updateConfig" =>
            /\ cfgSlot' \notin DOMAIN cfgObjs
            /\ \A r \in DOMAIN cfgObjs :
                  /\ cfgObjs'[r] = cfgObjs[r]
                  /\ \A sec \in DOMAIN cfgObjs[r] :
                        secs'[cfgObjs'[r][sec]] = secs[cfgObjs[r][sec]]
            /\ \A sec \in DOMAIN cfgObjs[cfgSlot] :
                  IF sec \in DOMAIN Partials[out'.arg]
                  THEN /\ cfgObjs'[cfgSlot'][sec] \notin DOMAIN secs
                       /\ secs'[cfgObjs'[cfgSlot'][sec]] = Partials[out'.arg][sec]
                  ELSE cfgObjs'[cfgSlot'][sec] = cfgObjs[cfgSlot][sec]]_vars
    /\ [](out.op = "ConfigManager.getConfig" => out.ref = cfgSlot)
    /\ [][out'.op = "ConfigManager.updateConfig" /\ app.exists =>
            /\ app' = app
            /\ app.cfg # cfgSlot'
            /\ Deref(cfgObjs', secs', app.cfg) = Deref(cfgObjs, secs, app.cfg)]_vars

C9_Witness ==
    /\ out.op = "ConfigManager.updateConfig"
    /\ out.ev = "return"
    /\ app.exists
    /\ app.cfg # cfgSlot
    /\ cfgObjs[app.cfg]["openai"] # cfgObjs[cfgSlot]["openai"]
    /\ secs[cfgObjs[app.cfg]["openai"]]["apiKey"] = "sk-test"
    /\ secs[cfgObjs[cfgSlot]["openai"]]["apiKey"] = "sk-new"

IsVP(e) == IsValidation(e) \/ IsPrecondition(e)

(* C10 as stated: a validation or precondition error raised during an      *)
(* operation leaves the outermost operation as the identical error.        *)
C10_Original ==
    IsVP(out.raised) => out.err = out.raised

ErrorLogs(logs) == SelectSeq(logs, LAMBDA l : l.level = "error")

(* C10: an error raised during a library operation is thrown to the caller *)
(* of that operation as the identical error, each LangChainCore layer it   *)
(* passes logging it once; in a top-level run a validation error leaves    *)
(* main() unchanged when RUN_EXAMPLES is set (the constructor is outside   *)
(* runExamples' try block) and is caught inside main(), printed and turned *)
(* into exit code 1 on the default path.                                   *)
C10_Propagation ==
    /\ (out.raised # NoErr /\ out.op # "main") =>
          /\ out.ev = "throw"
          /\ out.err = out.raised
    /\ (out.op \in CoreOps /\ out.ev = "throw") =>
          /\ IsPrecondition(out.raised)
          /\ Len(ErrorLogs(out.logs)) =
                (IF out.op \in {"createRAGChain", "similaritySearch"}
                 THEN 2 ELSE 1)
          /\ out.logs[Len(out.logs)].level = "error"
    /\ (out.op = "main" /\ IsVP(out.raised)) =>
          /\ out.code = 1
          /\ out.err = (IF out.arg = 1 THEN out.raised ELSE NoErr)
          /\ out.logs[Len(out.logs)].level = "console.error"

C10_Witness ==
    /\ out.op = "createRAGChain"
    /\ out.ev = "throw"
    /\ out.raised.site = "LangChainCore.createVectorStore"
    /\ out.err = out.raised

LifecycleKinds == MMKinds \cup AppKinds

(* C14: in every reachable state the starter's initialized flag being true *)
(* implies that the ModelManager's initialized flag is true, so that an    *)
(* operation of the core called while the starter's flag is true (a core   *)
(* that getCore() has handed out) never fails with the precondition error. *)
C14_FlagConsistency ==
    /\ starterInitialized => mmInitialized
    /\ (starterInitialized /\ out.op \in CoreOps) => ~FailsPrecondition(out)

(* C15 as stated: when no lifecycle call is suspended after a lifecycle    *)
(* step the ModelManager's flag is true; and an initialize() that starts   *)
(* while another initialize() is suspended at its delay goes on to the     *)
(* delay itself.                                                           *)
C15_Original ==
    /\ [](out.call \in LifecycleKinds /\ calls = NoCalls => mmInitialized)
    /\ [][(/\ InFlight(MMInit, "mmDelay")
           /\ out'.call = MMInit /\ out'.begin)
          =>
          (/\ out'.ev = "suspend"
           /\ Started(MMInit, "mmDelay"))]_vars

(* C15: when no lifecycle call is suspended after a lifecycle step the     *)
(* ModelManager's flag is true (once a call has started, the flag is true  *)
(* or a delay is pending, in every later state); an initialize() that      *)
(* starts while another initialize() is suspended at its delay and the     *)
(* flag is false goes on to the delay itself, so the delay is performed    *)
(* once more and both calls complete with the flag true; if the flag is    *)
(* true by then (a third overlapping call has completed) it returns at     *)
(* once with the "already initialized" warning.                            *)
C15_Overlap ==
    /\ [](out.call \in LifecycleKinds /\ calls = NoCalls => mmInitialized)
    /\ [][out'.call \in LifecycleKinds =>
            mmInitialized' \/ PendingTimers' # {}]_vars
    /\ [][mmInitialized \/ PendingTimers # {} =>
            mmInitialized' \/ PendingTimers' # {}]_vars
    /\ [][(/\ InFlight(MMInit, "mmDelay")
           /\ out'.call = MMInit /\ out'.begin)
          =>
          IF mmInitialized
          THEN /\ out'.ev = "return"
               /\ out'.logs = <<L("warn", "ModelManager already initialized")>>
               /\ calls' = calls
          ELSE /\ out'.ev = "suspend"
               /\ Started(MMInit, "mmDelay")]_vars
    /\ [][out'.call = MMInit /\ out'.op = MMInit /\ out'.ev = "return"
            /\ ~out'.begin =>
            out'.delays = 1 /\ mmInitialized']_vars

C15_Witness ==
    /\ out.call = MMInit
    /\ out.ev = "return"
    /\ out.delays = 1
    /\ out.overtaken
    /\ calls = NoCalls
    /\ mmInitialized

LoggerOps == {LoggerOp(l) : l \in LevelSet}

(* the severity of a Logger method and the order debug < info < warn <     *)
(* error                                                                   *)
Severity(op) == CHOOSE l \in LevelSet : LoggerOp(l) = op

Rank == [debug |-> 0, info |-> 1, warn |-> 2, error |-> 3]

(* C13: for every severity and every threshold in {debug, info, warn,      *)
(* error} and both values of the console flag, a call of a Logger method   *)
(* writes one line, tagged with its severity, if console logging is        *)
(* enabled and the rank of the severity is at least the rank of the        *)
(* threshold, and writes nothing otherwise; the call changes no state.     *)
C13_LoggerFilter ==
    /\ [](out.op \in LoggerOps /\ secs[LoggingRef]["level"] \in LevelSet =>
            IF /\ secs[LoggingRef]["enableConsole"]
               /\ Rank[Severity(out.op)] >= Rank[secs[LoggingRef]["level"]]
            THEN out.lines = <<[tag |-> toUpperCase(Severity(out.op)),
                                message |-> "message"]>>
            ELSE out.lines = <<>>)
    /\ [][out'.op \in LoggerOps =>
            UNCHANGED <<coreVars, env, cfgVars, app, lifeVars>>]_vars

C13_Witness ==
    /\ out.op = "Logger.warn"
    /\ secs[LoggingRef]["level"] = "warn"
    /\ secs[LoggingRef]["enableConsole"]
    /\ Len(out.lines) = 1

SearchOps == {"VectorStore.search", "similaritySearch"}

(* the first n documents of docs, in their order, each with score 0.8 *)
FirstScored(docs, n) ==
    [i \in 1..n |-> [content |-> docs[i], score |-> 8]]

(* the k a search uses: 4 when the caller leaves it out *)
KOf(o) == IF o.k.given THEN o.k.val ELSE 4

Searched(o) == o.op \in SearchOps /\ o.ev = "return"

(* C11: for every document list, query and k (4 when k is left out), a     *)
(* search of a vector store built from docs, and similaritySearch(query,   *)
(* docs, k), return min(k, docs.length) results (none for a k below 1):    *)
(* the first documents of docs in their order, each with score 0.8; two    *)
(* searches of the same documents with the same k give the same result     *)
(* whatever their queries.                                                 *)
C11_Search ==
    /\ [](Searched(out) =>
            out.value = FirstScored(out.docs, Min(KOf(out), Len(out.docs))))
    /\ [][(/\ Searched(out) /\ Searched(out')
           /\ out'.docs = out.docs /\ KOf(out') = KOf(out))
          => out'.value = out.value]_vars

ClosureOps == {"VectorStore.search", "RAGChain.call", "PromptChain.call"}

Creators == {"createVectorStore", "createRAGChain", "createPromptChain"}

(* C16: the client obtains a closure only from a gated operation that      *)
(* succeeded, with the ModelManager initialized; every later call of the   *)
(* closure (search of a vector store, call of a RAG chain, call of a       *)
(* prompt chain) succeeds whatever the ModelManager's flag is then, also   *)
(* while a reinitialize() is at its delay; a RAG chain's call returns as   *)
(* sourceDocuments the first min(4, docs.length) documents it captured.    *)
C16_Closures ==
    /\ [][held' # held =>
            /\ mmInitialized
            /\ out'.op \in Creators
            /\ out'.ev = "return"
            /\ held'.kind # "none"]_vars
    /\ [](out.op \in ClosureOps =>
            /\ out.ev = "return"
            /\ out.err = NoErr
            /\ Len(out.value) >= 0)
    /\ [](out.op = "RAGChain.call" =>
            /\ out.docs = held.documents
            /\ out.value[1].sourceDocuments =
                  FirstScored(held.documents, Min(4, Len(held.documents))))

C16_Witness ==
    /\ out.op = "RAGChain.call"
    /\ out.ev = "return"
    /\ ~mmInitialized
    /\ InFlight(MMReinit, "mmDelay")
    /\ Len(held.documents) > 4
    /\ Len(out.value[1].sourceDocuments) = 4

RECURSIVE Concat(_)
Concat(chunks) ==
    IF chunks = <<>> THEN <<>> ELSE Head(chunks) \o Concat(Tail(chunks))

ChunkSize == secs[cfgObjs[app.cfg]["embeddings"]]["chunkSize"]

SplitReturned == out.op = "splitText" /\ out.ev = "return"

(* C12: whenever splitText(text) returns, the chunks concatenated in order *)
(* are the text; every chunk but the last has the configured chunkSize     *)
(* characters and the last has between 1 and chunkSize; the chunks are the *)
(* consecutive pieces text[(j-1)*chunkSize .. j*chunkSize), whatever the   *)
(* configured chunkOverlap is.                                             *)
C12_Partition ==
    SplitReturned =>
        /\ Concat(out.value) = out.text
        /\ \A j \in 1..Len(out.value) :
              /\ j < Len(out.value) => Len(out.value[j]) = ChunkSize
              /\ Len(out.value[j]) >= 1
              /\ Len(out.value[j]) <= ChunkSize
              /\ out.value[j] =
                    SubSeq(out.text, (j - 1) * ChunkSize + 1,
                           Min(j * ChunkSize, Len(out.text)))

C12_Witness ==
    /\ SplitReturned
    /\ ChunkSize = 5
    /\ secs[cfgObjs[app.cfg]["embeddings"]]["chunkOverlap"] = 2
    /\ out.text = <<"a", "b", "c", "d", "e", "f", "g", "h">>
    /\ out.value = << <<"a", "b", "c", "d", "e">>, <<"f", "g", "h">> >>

(* ceil(n / d) for d >= 1 *)
CeilDiv(n, d) == (n + d - 1) \div d

(* C17: splitText terminates for every text and every integer chunkSize    *)
(* the configuration holds (zero and negative ones included): every        *)
(* iteration of its loop brings i closer to text.length, which bounds the  *)
(* number of iterations by text.length, and the loop is left when i has    *)
(* reached it; it returns ceil(text.length / chunkSize) chunks when        *)
(* chunkSize >= 1 and an empty list for the empty text.                    *)
C17_Terminates ==
    /\ [][Splitting /\ Splitting' =>
            /\ split'.i > split.i
            /\ Len(split'.chunks) <= Len(split.text)]_vars
    /\ [](SplitReturned =>
            /\ ChunkSize >= 1 =>
                  Len(out.value) = CeilDiv(Len(out.text), ChunkSize)
            /\ out.text = <<>> => out.value = <<>>)

=============================================================================
